---- MODULE Spec2Model ----
(***************************************************************************)
(* Cart reconciliation and order fulfilment of the leather-walk backend.   *)
(* Every route handler is a sequence of steps, one per awaited document-   *)
(* store call; a request slot (Procs) holds the handler's position and     *)
(* locals between two awaits, and its response once it has answered.       *)
(***************************************************************************)
EXTENDS Integers, Sequences, FiniteSets, TLC

VARIABLES
    products,   \* Product collection: id -> <<>> (no document) or <<doc>>
    carts,      \* Cart collection: user id -> the sequence of Cart documents of that user
    orders,     \* Order collection, in creation order; an order's id is its index
    req,        \* request slot -> the handler's position, arguments and locals
    clock       \* number of requests received so far; new Date() reads it

vars == <<products, carts, orders, req, clock>>

-----------------------------------------------------------------------------
(* Domains of the model *)

Procs == {"r1", "r2"}
ProductIds == {"p1", "p2"}
UserIds == {"u1", "u2"}
\* users that have a User document (user creation is not part of the model)
RegisteredUsers == {"u1"}

\* bounds on the number of requests of one behaviour: of the specification of the
\* whole shop, and of the specification of concurrent cart requests
MaxRequests == 3
MaxCartRequests == 3

\* an optional value: <<>> is undefined / null / no document, <<x>> is x
None == <<>>
Some(x) == <<x>>
IsSome(o) == o # <<>>
Val(o) == o[1]

Idle == [op |-> "none", pc |-> "idle"]
InFlight(r) == req[r].pc \notin {"idle", "done"}
Answered(r) == req[r].pc = "done"
Quiet == \A r \in Procs : ~InFlight(r)

\* the record b laid over the record a
Merge(a, b) == [f \in DOMAIN a \cup DOMAIN b |-> IF f \in DOMAIN b THEN b[f] ELSE a[f]]

\* What a slot keeps of a request beside the handler's locals: the operation, its
\* arguments and, for the properties (the handlers never read them), the arrival
\* number of the request, the collections as they were when it arrived and the
\* request the same client had answered just before.
RequestFields == {"op", "args", "seq", "atArrival", "previous"}
AnswerFields == (RequestFields \ {"previous"}) \cup {"status", "kind", "result"}
Restrict(rec, fields) == [f \in DOMAIN rec \cap fields |-> rec[f]]

NewRequest(r, env, op, args) ==
    [op |-> op, args |-> args, seq |-> clock + 1,
     atArrival |-> IF env.history
                   THEN Some([products |-> products, carts |-> carts, orders |-> orders])
                   ELSE None,
     previous |-> IF env.history /\ Answered(r) THEN Some(Restrict(req[r], AnswerFields)) ELSE None]

\* the handler of slot r goes on to position pc with the locals given
Continue(r, request, pc, locals) ==
    req' = [req EXCEPT ![r] = Merge(Merge(request, locals), [pc |-> pc])]

\* res.status(code).json(...), with the kind of message it carries
Answer(r, request, code, kind) ==
    req' = [req EXCEPT ![r] = Merge(Restrict(request, RequestFields),
                                     [pc |-> "done", status |-> code, kind |-> kind])]

Respond(r, code, kind) == Answer(r, req[r], code, kind)

\* A request arrives in slot r. `env` describes the clients of a specification: how
\* many requests they send, whether they wait for an answer before the next request
\* (sequential), the values they submit, and whether the slots keep history.
Arrive(r, env) ==
    /\ r \in env.procs
    /\ ~InFlight(r)
    /\ env.sequential => Quiet
    /\ clock < env.maxRequests
    /\ clock' = clock + 1

\* mongoose.Types.ObjectId.isValid
IsValidObjectId(id) == id \in ProductIds \cup UserIds

-----------------------------------------------------------------------------
(* Product collection *)

InitialProducts ==
    [p \in ProductIds |->
        IF p = "p1"
        THEN Some([name |-> "boot", price |-> 10, quantity |-> 3, imageUrl |-> "boot.png",
                   size |-> "41", color |-> "brown"])
        ELSE Some([name |-> "belt", price |-> 3, quantity |-> 1, imageUrl |-> "belt.png",
                   size |-> "M", color |-> "black"])]

\* Product.findById
ProductFindById(id) == IF id \in ProductIds THEN products[id] ELSE None


-----------------------------------------------------------------------------
(* Cart collection *)

\* index of the first line item of `items` for product p, 0 when there is none
\* (Array.prototype.find, and the positional operator $ of an update)
IndexOfProduct(items, p) ==
    IF \E i \in 1..Len(items) : items[i].productId = p
    THEN CHOOSE i \in 1..Len(items) :
            /\ items[i].productId = p
            /\ \A j \in 1..(i - 1) : items[j].productId # p
    ELSE 0

\* Cart.findOne({ user: userId })
CartFindOne(u) == IF Len(carts[u]) = 0 THEN None ELSE Some(carts[u][1])

\* index of the first Cart document of u that holds a line item for p, 0 when none
\* (the filter { user: userId, 'products.productId': productId })
CartIndexWithProduct(u, p) ==
    IF \E i \in 1..Len(carts[u]) : IndexOfProduct(carts[u][i].products, p) > 0
    THEN CHOOSE i \in 1..Len(carts[u]) :
            /\ IndexOfProduct(carts[u][i].products, p) > 0
            /\ \A j \in 1..(i - 1) : IndexOfProduct(carts[u][j].products, p) = 0
    ELSE 0

\* variant of IncrementLine: the quantity of the line is replaced, not incremented
ReplaceLine(items, p, quantity, price) ==
    LET i == IndexOfProduct(items, p) IN
    [items EXCEPT ![i] = [productId |-> p, quantity |-> quantity,
                          priceAtTimeOfAddition |-> price]]

\* { $inc: { 'products.$.quantity': quantity }, $set: { 'products.$.priceAtTimeOfAddition': price } }
IncrementLine(items, p, quantity, price) ==
    LET i == IndexOfProduct(items, p) IN
    [items EXCEPT ![i] = [productId |-> p,
                          quantity |-> items[i].quantity + quantity,
                          priceAtTimeOfAddition |-> price]]

\* { $push: { products: { productId, quantity, priceAtTimeOfAddition } } }
PushLine(items, p, quantity, price) ==
    Append(items, [productId |-> p, quantity |-> quantity, priceAtTimeOfAddition |-> price])

\* the line items an update with { upsert: true } starts from: those of the first Cart
\* document of u, none when the document is to be inserted
UpsertTarget(u) == IF Len(carts[u]) = 0 THEN <<>> ELSE carts[u][1].products

\* variant of CartUpsert: the line items given are added to those of the document
CartUpsertAdding(u, items) ==
    IF Len(carts[u]) = 0
    THEN [carts EXCEPT ![u] = <<[products |-> items, __v |-> 0]>>]
    ELSE [carts EXCEPT ![u][1].products = @ \o items]

\* findOneAndUpdate({ user: userId }, update, { upsert: true }) on a user that has a
\* Cart document: the first one gets the line items the update gives. (On a user
\* without one the store goes on to insert, see CartInsert.)
CartUpsert(u, items) ==
    IF Len(carts[u]) = 0
    THEN [carts EXCEPT ![u] = <<[products |-> items, __v |-> 0]>>]
    ELSE [carts EXCEPT ![u][1].products = items]

\* variant of UniqueUserAllows: the collection has no unique index on user
NoUniqueIndex(u) == TRUE

\* user: { unique: true }: the index admits a new Cart document of u when u has none
UniqueUserAllows(u) == Len(carts[u]) = 0

\* the insert of a Cart document of u; __v is the version key Mongoose gives a document
CartInsert(u, items) == [carts EXCEPT ![u] = Append(@, [products |-> items, __v |-> 0])]

\* variant of KeepItem: items of quantity 0 are kept
KeepItemOrZero(item) == item.quantity >= 0

\* filter(item => item.quantity > 0)
KeepItem(item) == item.quantity > 0
productsToSave(validatedProducts) == SelectSeq(validatedProducts, KeepItem)

\* variant of CartDeleteOne: the line items are removed and the document is kept
CartEmptyOne(u) == [carts EXCEPT ![u][1].products = <<>>]

\* Cart.findOneAndDelete({ user: userId })
CartDeleteOne(u) == [carts EXCEPT ![u] = Tail(carts[u])]

-----------------------------------------------------------------------------
(* POST /api/carts/:userId/add *)

StartAddItem(r, env) ==
    \E u \in env.users, p \in env.addProducts, q \in env.addQuantities :
        LET request == NewRequest(r, env, "addItem", [userId |-> u, productId |-> p, quantity |-> q])
            product == ProductFindById(p)
        IN  /\ Arrive(r, env)
            /\ IF ~IsValidObjectId(u) \/ ~IsValidObjectId(p) \/ q < 1
               THEN Answer(r, request, 400, "Validation")
               ELSE IF product = None
               THEN Answer(r, request, 404, "NotFound")
               ELSE Continue(r, request, "add_findCart", [product |-> Val(product)])
            /\ UNCHANGED <<products, carts, orders>>

\* quantity the handler finds in the cart it read: that of the first line item for p
existingQuantity(cart, p) ==
    IF IsSome(cart) /\ IndexOfProduct(Val(cart).products, p) > 0
    THEN Val(cart).products[IndexOfProduct(Val(cart).products, p)].quantity
    ELSE 0

AddFindCart(r) ==
    /\ req[r].pc = "add_findCart"
    /\ LET a == req[r].args
           newQuantity == a.quantity + existingQuantity(CartFindOne(a.userId), a.productId)
       IN  IF req[r].product.quantity < newQuantity
           THEN Respond(r, 400, "InsufficientStock")
           ELSE req' = [req EXCEPT ![r].pc = "add_increment"]
    /\ UNCHANGED <<products, carts, orders, clock>>

\* variant of AddIncrement: the quantity added to the line item is taken off the stock
AddIncrementReserving(r) ==
    /\ req[r].pc = "add_increment"
    /\ LET a == req[r].args
           i == CartIndexWithProduct(a.userId, a.productId)
       IN  IF i > 0
           THEN /\ carts' = [carts EXCEPT ![a.userId][i].products =
                                    IncrementLine(@, a.productId, a.quantity, req[r].product.price)]
                /\ products' = [products EXCEPT ![a.productId] =
                                    IF IsSome(@)
                                    THEN Some([Val(@) EXCEPT !.quantity = @ - a.quantity])
                                    ELSE @]
                /\ Respond(r, 200, "OK")
           ELSE /\ req' = [req EXCEPT ![r].pc = "add_push"]
                /\ UNCHANGED <<carts, products>>
    /\ UNCHANGED <<orders, clock>>

AddIncrement(r) ==
    /\ req[r].pc = "add_increment"
    /\ LET a == req[r].args
           i == CartIndexWithProduct(a.userId, a.productId)
       IN  IF i > 0
           THEN /\ carts' = [carts EXCEPT ![a.userId][i].products =
                                    IncrementLine(@, a.productId, a.quantity, req[r].product.price)]
                /\ Respond(r, 200, "OK")
           ELSE /\ req' = [req EXCEPT ![r].pc = "add_push"]
                /\ UNCHANGED carts
    /\ UNCHANGED <<products, orders, clock>>

\* The upserting findOneAndUpdate: the store looks for a Cart document of the user and
\* updates the one it finds; when it finds none it goes on to insert one, and other
\* requests may write between the two.
AddPush(r) ==
    /\ req[r].pc = "add_push"
    /\ LET a == req[r].args IN
       IF IsSome(CartFindOne(a.userId))
       THEN /\ carts' = CartUpsert(a.userId, PushLine(UpsertTarget(a.userId), a.productId,
                                                      a.quantity, req[r].product.price))
            /\ Respond(r, 200, "OK")
       ELSE /\ req' = [req EXCEPT ![r].pc = "add_insert"]
            /\ UNCHANGED carts
    /\ UNCHANGED <<products, orders, clock>>

\* The insert of the upsert. When the unique index on user refuses it, because another
\* request has inserted a cart of the user meanwhile, the store either runs the update
\* again, on the document that is there now, or gives the duplicate-key error to the
\* handler, whose catch answers 500; which of the two depends on the store's version.
AddInsert(r) ==
    /\ req[r].pc = "add_insert"
    /\ LET a == req[r].args IN
       IF UniqueUserAllows(a.userId)
       THEN /\ carts' = CartInsert(a.userId, PushLine(<<>>, a.productId, a.quantity,
                                                      req[r].product.price))
            /\ Respond(r, 200, "OK")
       ELSE \/ /\ carts' = CartUpsert(a.userId, PushLine(UpsertTarget(a.userId), a.productId,
                                                         a.quantity, req[r].product.price))
               /\ Respond(r, 200, "OK")
            \/ /\ Respond(r, 500, "ServerError")
               /\ UNCHANGED carts
    /\ UNCHANGED <<products, orders, clock>>

-----------------------------------------------------------------------------
(* POST /api/carts/:userId/add, the handler of the second router of cartRoute.js: it
   loads the cart, changes its copy and saves it *)

StartAddItemBySave(r, env) ==
    \E u \in env.users, p \in env.addProducts, q \in env.addQuantities :
        LET request == NewRequest(r, env, "addItem", [userId |-> u, productId |-> p, quantity |-> q])
            product == ProductFindById(p)
        IN  /\ Arrive(r, env)
            /\ IF ~IsValidObjectId(u) \/ ~IsValidObjectId(p) \/ q < 1
               THEN Answer(r, request, 400, "Validation")
               ELSE IF product = None
               THEN Answer(r, request, 404, "NotFound")
               ELSE Continue(r, request, "save_findCart", [product |-> Val(product)])
            /\ UNCHANGED <<products, carts, orders>>

\* Cart.findOne, then the changes to the copy up to cart.save(). The handler keeps what
\* save() will send: the version of the document it loaded and, for a line item it
\* found, the position and the new quantity, or else the line item to push.
AddBySaveFindCart(r) ==
    /\ req[r].pc = "save_findCart"
    /\ LET a == req[r].args
           found == CartFindOne(a.userId)
           items == IF IsSome(found) THEN Val(found).products ELSE <<>>
           existingItemIndex == IndexOfProduct(items, a.productId)
           currentCartQuantity == IF existingItemIndex > 0 THEN items[existingItemIndex].quantity ELSE 0
           newTotalQuantity == currentCartQuantity + a.quantity
       IN  IF req[r].product.quantity < newTotalQuantity
           THEN Respond(r, 400, "InsufficientStock")
           ELSE Continue(r, req[r], "save_cart",
                    [isNew |-> ~IsSome(found),
                     loadedVersion |-> IF IsSome(found) THEN Val(found).__v ELSE 0,
                     existingItemIndex |-> existingItemIndex,
                     newTotalQuantity |-> newTotalQuantity])
    /\ UNCHANGED <<products, carts, orders, clock>>

\* the update save() sends for a line item changed in place:
\* { $set: { 'products.i.quantity': newTotalQuantity, 'products.i.priceAtTimeOfAddition': price } }
SaveSetLine(items, i, newTotalQuantity, price) ==
    [items EXCEPT ![i].quantity = newTotalQuantity, ![i].priceAtTimeOfAddition = price]

\* cart.save(). A new cart is inserted, and the unique index on user refuses a second
\* cart of the user. For a cart that was loaded Mongoose sends the changes only: a
\* changed line item is set by its position, under the condition that the version of
\* the document is the one that was loaded, and the version is left as it is; a new
\* line item is pushed, without condition, and the version is incremented. An update
\* that matches no document is an error. (The requests that run beside this handler
\* delete no cart, so a document of the user is the one that was loaded.)
AddBySaveCart(r) ==
    /\ req[r].pc = "save_cart"
    /\ LET a == req[r].args
           u == a.userId
           i == req[r].existingItemIndex
       IN  IF req[r].isNew
           THEN IF UniqueUserAllows(u)
                THEN /\ carts' = CartInsert(u, PushLine(<<>>, a.productId, a.quantity,
                                                        req[r].product.price))
                     /\ Respond(r, 200, "OK")
                ELSE /\ Respond(r, 500, "ServerError")
                     /\ UNCHANGED carts
           ELSE IF carts[u] = <<>> \/ (i > 0 /\ carts[u][1].__v # req[r].loadedVersion)
           THEN /\ Respond(r, 500, "ServerError")
                /\ UNCHANGED carts
           ELSE IF i > 0
           THEN /\ carts' = [carts EXCEPT ![u][1].products =
                                SaveSetLine(@, i, req[r].newTotalQuantity, req[r].product.price)]
                /\ Respond(r, 200, "OK")
           ELSE /\ carts' = [carts EXCEPT
                                ![u][1].products = PushLine(@, a.productId, a.quantity,
                                                            req[r].product.price),
                                ![u][1].__v = @ + 1]
                /\ Respond(r, 200, "OK")
    /\ UNCHANGED <<products, orders, clock>>

-----------------------------------------------------------------------------
(* PUT /api/carts/:userId *)

\* the lists of at most two of `items`
ListsOf(items) ==
    {<<>>} \cup {<<i>> : i \in items} \cup {<<i, j>> : i \in items, j \in items}

StartSetItems(r, env) ==
    \E u \in env.users, items \in env.setLists :
        LET request == NewRequest(r, env, "setItems", [userId |-> u, products |-> items]) IN
        /\ Arrive(r, env)
        /\ IF ~IsValidObjectId(u)
           THEN Answer(r, request, 400, "Validation")
           ELSE Continue(r, request, IF Len(items) = 0 THEN "set_write" ELSE "set_validate",
                         [idx |-> 1, validatedProducts |-> <<>>])
        /\ UNCHANGED <<products, carts, orders>>

\* variant of validateCartItems: the quantity of an item is not compared with the stock
validateCartItemsNoStock(r) ==
    /\ req[r].pc = "set_validate"
    /\ LET item == req[r].args.products[req[r].idx]
           product == ProductFindById(item.productId)
       IN  IF \/ ~IsValidObjectId(item.productId)
              \/ item.quantity < 0
              \/ item.priceAtTimeOfAddition < 0
           THEN Respond(r, 400, "Validation")
           ELSE IF product = None
           THEN Respond(r, 404, "NotFound")
           ELSE req' = [req EXCEPT
                    ![r].validatedProducts = Append(@, [productId |-> item.productId,
                                quantity |-> item.quantity,
                                priceAtTimeOfAddition |-> item.priceAtTimeOfAddition]),
                    ![r].idx = @ + 1,
                    ![r].pc = IF req[r].idx = Len(req[r].args.products)
                              THEN "set_write" ELSE "set_validate"]
    /\ UNCHANGED <<products, carts, orders, clock>>

\* one turn of the loop of validateCartItems; a missing productId is the empty string
validateCartItems(r) ==
    /\ req[r].pc = "set_validate"
    /\ LET item == req[r].args.products[req[r].idx]
           product == ProductFindById(item.productId)
       IN  IF \/ ~IsValidObjectId(item.productId)
              \/ item.quantity < 0
              \/ item.priceAtTimeOfAddition < 0
           THEN Respond(r, 400, "Validation")
           ELSE IF product = None
           THEN Respond(r, 404, "NotFound")
           ELSE IF item.quantity > 0 /\ item.quantity > Val(product).quantity
           THEN Respond(r, 400, "InsufficientStock")
           ELSE req' = [req EXCEPT
                    ![r].validatedProducts = Append(@, [productId |-> item.productId,
                                quantity |-> item.quantity,
                                priceAtTimeOfAddition |-> item.priceAtTimeOfAddition]),
                    ![r].idx = @ + 1,
                    ![r].pc = IF req[r].idx = Len(req[r].args.products)
                              THEN "set_write" ELSE "set_validate"]
    /\ UNCHANGED <<products, carts, orders, clock>>

\* the upserting findOneAndUpdate, as in AddPush
SetWrite(r) ==
    /\ req[r].pc = "set_write"
    /\ IF IsSome(CartFindOne(req[r].args.userId))
       THEN /\ carts' = CartUpsert(req[r].args.userId, productsToSave(req[r].validatedProducts))
            /\ Respond(r, 200, "OK")
       ELSE /\ req' = [req EXCEPT ![r].pc = "set_insert"]
            /\ UNCHANGED carts
    /\ UNCHANGED <<products, orders, clock>>

\* the insert of the upsert, as in AddInsert
SetInsert(r) ==
    /\ req[r].pc = "set_insert"
    /\ LET u == req[r].args.userId
           items == productsToSave(req[r].validatedProducts)
       IN  IF UniqueUserAllows(u)
           THEN /\ carts' = CartInsert(u, items)
                /\ Respond(r, 200, "OK")
           ELSE \/ /\ carts' = CartUpsert(u, items)
                   /\ Respond(r, 200, "OK")
                \/ /\ Respond(r, 500, "ServerError")
                   /\ UNCHANGED carts
    /\ UNCHANGED <<products, orders, clock>>

-----------------------------------------------------------------------------
(* GET /api/carts/:userId *)

\* populate('products.productId', ...): the id of a line item is replaced by the fields
\* selected of its product, or by null when the product has no document
Populate(items) ==
    [i \in 1..Len(items) |->
        [items[i] EXCEPT !.productId =
            IF IsSome(ProductFindById(@))
            THEN Some(Merge([_id |-> @], Val(ProductFindById(@))))
            ELSE None]]

\* variant of GetCartAnswer: a user without a cart is answered not-found
GetCartAnswerNotFound(u, cart) ==
    IF cart = None
    THEN [status |-> 404, kind |-> "NotFound"]
    ELSE [status |-> 200, kind |-> "OK",
          result |-> [user |-> u, products |-> Populate(Val(cart).products)]]

\* what the handler answers with the cart it found: the cart, or an empty cart made up
\* for the answer when the user has none
GetCartAnswer(u, cart) ==
    IF cart = None
    THEN [status |-> 200, kind |-> "OK", result |-> [user |-> u, products |-> <<>>]]
    ELSE [status |-> 200, kind |-> "OK",
          result |-> [user |-> u, products |-> Populate(Val(cart).products)]]

GetCart(r, env) ==
    \E u \in env.users :
        LET request == NewRequest(r, env, "getCart", [userId |-> u]) IN
        /\ Arrive(r, env)
        /\ IF ~IsValidObjectId(u)
           THEN Answer(r, request, 400, "Validation")
           ELSE req' = [req EXCEPT ![r] = Merge(Restrict(request, RequestFields),
                                 Merge(GetCartAnswer(u, CartFindOne(u)), [pc |-> "done"]))]
        /\ UNCHANGED <<products, carts, orders>>

-----------------------------------------------------------------------------
(* DELETE /api/carts/:userId *)

ClearCart(r, env) ==
    \E u \in env.users :
        LET request == NewRequest(r, env, "clearCart", [userId |-> u]) IN
        /\ Arrive(r, env)
        /\ IF ~IsValidObjectId(u)
           THEN /\ Answer(r, request, 400, "Validation")
                /\ UNCHANGED carts
           ELSE IF CartFindOne(u) = None
           THEN /\ Answer(r, request, 404, "NotFound")
                /\ UNCHANGED carts
           ELSE /\ carts' = CartDeleteOne(u)
                /\ Answer(r, request, 200, "OK")
        /\ UNCHANGED <<products, orders>>

-----------------------------------------------------------------------------
(* PATCH /api/products/:id and DELETE /api/products/:id *)

\* findByIdAndUpdate(_id, req.body): the fields of the body replace the document's
ApplyPatch(doc, body) ==
    [f \in DOMAIN doc |-> IF f \in DOMAIN body THEN body[f] ELSE doc[f]]

\* the product handlers are one store call each, so they hold no request slot
PatchProduct(env) ==
    \E p \in env.patchProducts, body \in env.patchBodies :
        /\ env.sequential => Quiet
        /\ clock < env.maxRequests
        /\ clock' = clock + 1
        /\ IsSome(products[p])
        /\ products' = [products EXCEPT ![p] = Some(ApplyPatch(Val(products[p]), body))]
        /\ UNCHANGED <<carts, orders, req>>

DeleteProduct(env) ==
    \E p \in env.patchProducts :
        /\ env.sequential => Quiet
        /\ clock < env.maxRequests
        /\ clock' = clock + 1
        /\ IsSome(products[p])
        /\ products' = [products EXCEPT ![p] = None]
        /\ UNCHANGED <<carts, orders, req>>

-----------------------------------------------------------------------------
(* Mongoose documents *)

\* A Product document holds the paths of productSchema that the handlers read: name,
\* price, quantity (the stock), imageUrl, size and color.

\* the field of a Product document that POST /api/orders reads and writes as the stock
StockField == "stock"

\* doc.field: undefined for a field the schema does not declare
DocGet(doc, field) == IF field \in DOMAIN doc THEN Some(doc[field]) ELSE None

\* variant of JsLess: undefined is less than every number
JsLessUndefinedFirst(a, b) == ~IsSome(a) \/ (IsSome(b) /\ Val(a) < Val(b))

\* a < b of JavaScript on optional numbers: a comparison with undefined is false
JsLess(a, b) == IsSome(a) /\ IsSome(b) /\ Val(a) < Val(b)

\* product.stock -= quantity on the handler's copy of the document: a property that is
\* no path of the schema is not part of the document
DecrementStock(doc, quantity) ==
    IF StockField \in DOMAIN doc THEN [doc EXCEPT ![StockField] = @ - quantity] ELSE doc

\* product.save(): the modified paths of the copy are written to the stored document
SaveProduct(stored, copy) ==
    IF StockField \in DOMAIN copy /\ IsSome(stored)
    THEN Some([Val(stored) EXCEPT ![StockField] = copy[StockField]])
    ELSE stored

\* item.size || 'N/A'
OrDefault(o, default) == IF IsSome(o) THEN Val(o) ELSE default

PaymentMethods == {"cod", "card", "mpesa"}
PaymentStatuses == {"Pending", "Paid", "Failed", "Refunded"}
OrderStatuses == {"Pending", "Processing", "Shipped", "Delivered", "Cancelled", "Returned"}

\* the validators of OrderSchema that order.save() runs
OrderIsValid(order) ==
    /\ \A i \in 1..Len(order.products) : order.products[i].quantity >= 1
    /\ order.paymentMethod \in PaymentMethods
    /\ order.paymentStatus \in PaymentStatuses
    /\ order.orderStatus \in OrderStatuses
    /\ order.subtotalAmount >= 0
    /\ order.shippingCost >= 0
    /\ order.totalAmount >= 0

\* variant of UserExists: every user id has a User document
UserExistsAnyone(u) == TRUE

\* User.findById
UserExists(u) == u \in RegisteredUsers

\* User.findByIdAndUpdate(userId, { $set: { cart: [] } }): userSchema declares no cart
\* path, so the update writes nothing, and the Cart collection is not touched
ClearUserCart(u) == carts

-----------------------------------------------------------------------------
(* POST /api/orders *)

\* The checks before the loop. A body without a products list and one with an empty
\* list are the same value here (None is the empty sequence), as they are for the test
\* !products || products.length === 0; a missing userId is the empty string. findById
\* throws a CastError for an id that is no object id, here and in the handlers below,
\* and the catch of the handler answers 500.
StartCreateOrder(r, env) ==
    \E body \in env.orderBodies :
        LET request == NewRequest(r, env, "createOrder", body) IN
        /\ Arrive(r, env)
        /\ IF body.userId = "" \/ Len(body.products) = 0
           THEN Answer(r, request, 400, "Validation")
           ELSE IF ~IsValidObjectId(body.userId)
           THEN Answer(r, request, 500, "ServerError")
           ELSE IF ~UserExists(body.userId)
           THEN Answer(r, request, 404, "NotFound")
           ELSE Continue(r, request, "order_item",
                         [idx |-> 1, calculatedSubtotal |-> 0, orderProducts |-> <<>>,
                          product |-> None])
        /\ UNCHANGED <<products, carts, orders>>

\* the snapshot of one item pushed to orderProducts
OrderLine(item, product) ==
    [productId |-> item.productId,
     quantity |-> item.quantity,
     priceAtTimeOfOrder |-> product.price,
     nameAtTimeOfOrder |-> product.name,
     imageUrlAtTimeOfOrder |-> product.imageUrl,
     sizeAtTimeOfOrder |-> OrDefault(item.size, "N/A"),
     colorAtTimeOfOrder |-> OrDefault(item.color, "N/A")]

\* variant of AddToSubtotal: the subtotal trusts the price the client submitted
AddToSubtotalClientPrice(calculatedSubtotal, item, product) ==
    calculatedSubtotal + item.price * item.quantity

\* calculatedSubtotal += product.price * item.quantity
AddToSubtotal(calculatedSubtotal, item, product) ==
    calculatedSubtotal + product.price * item.quantity

\* one turn of the loop over the items, up to its product.save()
OrderCheckItem(r) ==
    /\ req[r].pc = "order_item"
    /\ LET item == req[r].args.products[req[r].idx]
           product == ProductFindById(item.productId)
       IN  IF ~IsValidObjectId(item.productId)
           THEN Respond(r, 500, "ServerError")
           ELSE IF product = None
           THEN Respond(r, 404, "NotFound")
           ELSE IF JsLess(DocGet(Val(product), StockField), Some(item.quantity))
           THEN Respond(r, 400, "InsufficientStock")
           ELSE req' = [req EXCEPT
                    ![r].calculatedSubtotal = AddToSubtotal(@, item, Val(product)),
                    ![r].orderProducts = Append(@, OrderLine(item, Val(product))),
                    ![r].product = Some(DecrementStock(Val(product), item.quantity)),
                    ![r].pc = "order_saveProduct"]
    /\ UNCHANGED <<products, carts, orders, clock>>

OrderSaveProduct(r) ==
    /\ req[r].pc = "order_saveProduct"
    /\ LET id == req[r].args.products[req[r].idx].productId
       IN  products' = [products EXCEPT ![id] = SaveProduct(@, Val(req[r].product))]
    /\ req' = [req EXCEPT ![r].idx = @ + 1,
                          ![r].product = None,
                          ![r].pc = IF req[r].idx = Len(req[r].args.products)
                                    THEN "order_save" ELSE "order_item"]
    /\ UNCHANGED <<carts, orders, clock>>

\* new Order({...})
NewOrder(body, calculatedSubtotal, orderProducts) ==
    [userId |-> body.userId,
     products |-> orderProducts,
     shippingInfo |-> body.shippingInfo,
     paymentMethod |-> body.paymentMethod,
     subtotalAmount |-> calculatedSubtotal,
     shippingCost |-> body.shippingCost,
     totalAmount |-> calculatedSubtotal + body.shippingCost,
     paymentStatus |-> "Pending",
     orderStatus |-> "Pending",
     trackingNumber |-> None,
     deliveredAt |-> None]

OrderSave(r) ==
    /\ req[r].pc = "order_save"
    /\ LET order == NewOrder(req[r].args, req[r].calculatedSubtotal, req[r].orderProducts)
       IN  IF OrderIsValid(order)
           THEN /\ orders' = Append(orders, order)
                /\ req' = [req EXCEPT ![r].pc = "order_clearCart"]
           ELSE /\ Respond(r, 500, "ServerError")
                /\ UNCHANGED orders
    /\ UNCHANGED <<products, carts, clock>>

OrderClearCart(r) ==
    /\ req[r].pc = "order_clearCart"
    /\ carts' = ClearUserCart(req[r].args.userId)
    /\ Respond(r, 201, "Created")
    /\ UNCHANGED <<products, orders, clock>>

\* The store rejects User.findByIdAndUpdate (the connection is lost, the call times
\* out): the await throws inside the try and the catch of the handler answers 500. The
\* order is stored by then. This is the one store rejection the model has; the others
\* reach the same catch before an order exists.
OrderClearCartRejected(r) ==
    /\ req[r].pc = "order_clearCart"
    /\ Respond(r, 500, "ServerError")
    /\ UNCHANGED <<products, carts, orders, clock>>

-----------------------------------------------------------------------------
(* PUT /api/orders/:id/status and PUT /api/orders/:id/payment-status *)

\* An order's id is its position in the collection; MalformedOrderId stands for the ids
\* that are no object-id strings.
MalformedOrderId == 0

\* the ids a client sends for an order: those of the orders, one that no order has,
\* and a malformed one
OrderIdsSent == 1..(Len(orders) + 1) \cup {MalformedOrderId}

\* Order.findById
OrderFindById(id) == IF id \in 1..Len(orders) THEN Some(orders[id]) ELSE None

\* variant of ApplyStatus: Delivered, Cancelled and Returned are final, an order in one
\* of them keeps its orderStatus
ApplyStatusFinal(order, body, now) ==
    [order EXCEPT
        !.orderStatus = IF IsSome(body.orderStatus)
                           /\ @ \notin {"Delivered", "Cancelled", "Returned"}
                        THEN Val(body.orderStatus) ELSE @,
        !.trackingNumber = IF IsSome(body.trackingNumber) THEN body.trackingNumber ELSE @,
        !.deliveredAt = IF IsSome(body.deliveredAt) THEN body.deliveredAt
                        ELSE IF body.orderStatus = Some("Delivered") /\ ~IsSome(@)
                        THEN Some(now)
                        ELSE @]

\* variant of ApplyStatus: the deliveredAt of the body is stored for a Delivered order only
ApplyStatusDateOfDelivered(order, body, now) ==
    [order EXCEPT
        !.orderStatus = IF IsSome(body.orderStatus) THEN Val(body.orderStatus) ELSE @,
        !.trackingNumber = IF IsSome(body.trackingNumber) THEN body.trackingNumber ELSE @,
        !.deliveredAt = IF IsSome(body.deliveredAt)
                           /\ "Delivered" \in {order.orderStatus, OrDefault(body.orderStatus, "")}
                        THEN body.deliveredAt
                        ELSE IF body.orderStatus = Some("Delivered") /\ ~IsSome(@)
                        THEN Some(now)
                        ELSE @]

\* variant of ApplyStatus: deliveredAt is stored when the body gives it and never stamped
ApplyStatusNoStamp(order, body, now) ==
    [order EXCEPT
        !.orderStatus = IF IsSome(body.orderStatus) THEN Val(body.orderStatus) ELSE @,
        !.trackingNumber = IF IsSome(body.trackingNumber) THEN body.trackingNumber ELSE @,
        !.deliveredAt = IF IsSome(body.deliveredAt) THEN body.deliveredAt ELSE @]

\* variant of ApplyStatus: Delivered stamps deliveredAt without looking at the stored one
ApplyStatusAlwaysStamp(order, body, now) ==
    [order EXCEPT
        !.orderStatus = IF IsSome(body.orderStatus) THEN Val(body.orderStatus) ELSE @,
        !.trackingNumber = IF IsSome(body.trackingNumber) THEN body.trackingNumber ELSE @,
        !.deliveredAt = IF IsSome(body.deliveredAt) THEN body.deliveredAt
                        ELSE IF body.orderStatus = Some("Delivered") THEN Some(now)
                        ELSE @]

\* the assignments of the status handler to the order it loaded; `now` is new Date()
ApplyStatus(order, body, now) ==
    [order EXCEPT
        !.orderStatus = IF IsSome(body.orderStatus) THEN Val(body.orderStatus) ELSE @,
        !.trackingNumber = IF IsSome(body.trackingNumber) THEN body.trackingNumber ELSE @,
        !.deliveredAt = IF IsSome(body.deliveredAt) THEN body.deliveredAt
                        ELSE IF body.orderStatus = Some("Delivered") /\ ~IsSome(@)
                        THEN Some(now)
                        ELSE @]

UpdateOrderStatus(r, env) ==
    \E id \in OrderIdsSent, body \in env.statusBodies :
        LET request == NewRequest(r, env, "updateStatus", [id |-> id, body |-> body])
            order == OrderFindById(id)
        IN  /\ Arrive(r, env)
            /\ IF id = MalformedOrderId
               THEN /\ Answer(r, request, 500, "ServerError")
                    /\ UNCHANGED orders
               ELSE IF order = None
               THEN /\ Answer(r, request, 404, "NotFound")
                    /\ UNCHANGED orders
               ELSE IF ~OrderIsValid(ApplyStatus(Val(order), body, clock'))
               THEN /\ Answer(r, request, 500, "ServerError")
                    /\ UNCHANGED orders
               ELSE /\ orders' = [orders EXCEPT ![id] = ApplyStatus(@, body, clock')]
                    /\ Answer(r, request, 200, "OK")
            /\ UNCHANGED <<products, carts>>

\* variant of ApplyPaymentStatus: a payment that is Paid moves a Pending order on to
\* Processing
ApplyPaymentStatusAdvancing(order, paymentStatus) ==
    [order EXCEPT !.paymentStatus = paymentStatus,
                  !.orderStatus = IF paymentStatus = "Paid" /\ @ = "Pending"
                                  THEN "Processing" ELSE @]

\* variant of ApplyPaymentStatus: the update also rewrites the total of the order
ApplyPaymentStatusAndTotal(order, paymentStatus) ==
    [order EXCEPT !.paymentStatus = paymentStatus, !.totalAmount = order.subtotalAmount]

\* order.paymentStatus = paymentStatus
ApplyPaymentStatus(order, paymentStatus) == [order EXCEPT !.paymentStatus = paymentStatus]

UpdatePaymentStatus(r, env) ==
    \E id \in OrderIdsSent, paymentStatus \in env.paymentStatuses :
        LET request == NewRequest(r, env, "updatePayment", [id |-> id, paymentStatus |-> paymentStatus])
            order == OrderFindById(id)
        IN  /\ Arrive(r, env)
            /\ IF id = MalformedOrderId
               THEN /\ Answer(r, request, 500, "ServerError")
                    /\ UNCHANGED orders
               ELSE IF order = None
               THEN /\ Answer(r, request, 404, "NotFound")
                    /\ UNCHANGED orders
               ELSE IF paymentStatus \notin PaymentStatuses
               THEN /\ Answer(r, request, 400, "Validation")
                    /\ UNCHANGED orders
               ELSE /\ orders' = [orders EXCEPT ![id] = ApplyPaymentStatus(@, paymentStatus)]
                    /\ Answer(r, request, 200, "OK")
            /\ UNCHANGED <<products, carts>>

-----------------------------------------------------------------------------
Init ==
    /\ products = InitialProducts
    /\ carts = [u \in UserIds |-> <<>>]
    /\ orders = <<>>
    /\ req = [r \in Procs |-> Idle]
    /\ clock = 0

\* a line item a client submits to PUT /api/carts/:userId
Line(p, q, price) == [productId |-> p, quantity |-> q, priceAtTimeOfAddition |-> price]

\* concurrent cart requests of one user
CartEnv ==
    [procs |-> Procs, sequential |-> FALSE, history |-> FALSE, maxRequests |-> MaxCartRequests,
     users |-> {"u1"}, addProducts |-> ProductIds, addQuantities |-> {1, 2},
     setLists |-> ListsOf({Line("p1", 0, 7), Line("p1", 1, 7)}),
     patchProducts |-> {"p1"}, patchBodies |-> {[price |-> 4], [quantity |-> 1]}]

CartStep(r, env) ==
    \/ StartAddItem(r, env) \/ AddFindCart(r) \/ AddIncrement(r) \/ AddPush(r) \/ AddInsert(r)
    \/ StartSetItems(r, env) \/ validateCartItems(r) \/ SetWrite(r) \/ SetInsert(r)
    \/ ClearCart(r, env)

\* the cart handlers of concurrent requests, interleaved at their awaits
NextCart ==
    \/ \E r \in Procs : CartStep(r, CartEnv)
    \/ PatchProduct(CartEnv)
    \/ DeleteProduct(CartEnv)
SpecCart == Init /\ [][NextCart]_vars

-----------------------------------------------------------------------------
(* The whole shop, one request at a time *)

\* an item a client submits to POST /api/orders; `price` is the price the client saw
OrderItem(p, q) == [productId |-> p, quantity |-> q, price |-> 1, size |-> Some("42"), color |-> None]

OrderBody(u, items) ==
    [userId |-> u, products |-> items, shippingInfo |-> "Nairobi", paymentMethod |-> "cod",
     subtotalAmount |-> 0, shippingCost |-> 2, totalAmount |-> 0]

StatusBody(orderStatus, deliveredAt) ==
    [orderStatus |-> orderStatus, trackingNumber |-> None, deliveredAt |-> deliveredAt]

ShopEnv ==
    [procs |-> {"r1"}, sequential |-> TRUE, history |-> TRUE, maxRequests |-> MaxRequests,
     users |-> {"u1"}, addProducts |-> {"p1"}, addQuantities |-> {1},
     setLists |-> {<<Line("p1", 1, 7)>>},
     patchProducts |-> {"p1"}, patchBodies |-> {[price |-> 4], [name |-> "loafer"]},
     orderBodies |->
        {OrderBody("u1", items) :
            items \in {<<>>, <<OrderItem("p1", 1)>>, <<OrderItem("p1", 4)>>,
                       <<OrderItem("p2", 1), OrderItem("p1", 2)>>,
                       <<OrderItem("p1", 0)>>}}
        \cup {OrderBody("u2", <<OrderItem("p1", 1)>>),
              OrderBody("nobody", <<OrderItem("p1", 1)>>),
              OrderBody("u1", <<OrderItem("p2", 1), OrderItem("boots", 1)>>)},
     statusBodies |-> {StatusBody(Some("Delivered"), None), StatusBody(Some("Shipped"), None),
                       StatusBody(None, Some(50))},
     paymentStatuses |-> {"Paid", "Chargeback"}]

OrderStep(r, env) ==
    \/ StartCreateOrder(r, env) \/ OrderCheckItem(r) \/ OrderSaveProduct(r)
    \/ OrderSave(r) \/ OrderClearCart(r) \/ OrderClearCartRejected(r)
    \/ UpdateOrderStatus(r, env) \/ UpdatePaymentStatus(r, env)

Next ==
    \/ \E r \in Procs : OrderStep(r, ShopEnv) \/ CartStep(r, ShopEnv)
    \/ PatchProduct(ShopEnv)
    \/ DeleteProduct(ShopEnv)
Spec == Init /\ [][Next]_vars

-----------------------------------------------------------------------------
(* Cart requests, one at a time *)

\* lists whose second item validateCartItems refuses: no productId, a malformed one, a
\* negative quantity, a negative price, more than the stock
RefusedLists ==
    {<<Line("p1", 1, 7), item>> :
        item \in {Line("", 1, 7), Line("boots", 1, 7), Line("p1", -1, 7), Line("p1", 1, -7),
                  Line("p2", 2, 7)}}

CartSeqEnv ==
    [procs |-> {"r1"}, sequential |-> TRUE, history |-> TRUE, maxRequests |-> MaxRequests,
     users |-> UserIds, addProducts |-> ProductIds, addQuantities |-> {0, 1, 2},
     setLists |-> ListsOf({Line("p1", 0, 7), Line("p1", 1, 7)}) \cup RefusedLists,
     patchProducts |-> {"p1"}, patchBodies |-> {[price |-> 4], [quantity |-> 1]}]

AddBySaveStep(r, env) ==
    StartAddItemBySave(r, env) \/ AddBySaveFindCart(r) \/ AddBySaveCart(r)

NextCartSeq ==
    \/ \E r \in Procs : CartStep(r, CartSeqEnv) \/ AddBySaveStep(r, CartSeqEnv)
                         \/ GetCart(r, CartSeqEnv)
    \/ PatchProduct(CartSeqEnv)
    \/ DeleteProduct(CartSeqEnv)
SpecCartSeq == Init /\ [][NextCartSeq]_vars

-----------------------------------------------------------------------------
(* Concurrent createOrder requests *)

OrderRaceEnv ==
    [procs |-> Procs, sequential |-> FALSE, history |-> TRUE, maxRequests |-> MaxRequests,
     orderBodies |->
        {OrderBody("u1", items) :
            items \in {<<OrderItem("p1", 1)>>, <<OrderItem("p1", 2)>>,
                       <<OrderItem("p2", 1), OrderItem("p1", 3)>>}}]

CreateOrderStep(r, env) ==
    \/ StartCreateOrder(r, env) \/ OrderCheckItem(r) \/ OrderSaveProduct(r)
    \/ OrderSave(r) \/ OrderClearCart(r) \/ OrderClearCartRejected(r)

NextOrderRace == \E r \in Procs : CreateOrderStep(r, OrderRaceEnv)
SpecOrderRace == Init /\ [][NextOrderRace]_vars

-----------------------------------------------------------------------------
(* Concurrent addItem requests of one user, handled by the second router *)

RaceEnv ==
    [procs |-> Procs, sequential |-> FALSE, history |-> TRUE, maxRequests |-> MaxCartRequests,
     users |-> {"u1"}, addProducts |-> ProductIds, addQuantities |-> {1, 2}]

NextCartRace == \E r \in Procs : AddBySaveStep(r, RaceEnv)
SpecCartRace == Init /\ [][NextCartRace]_vars

-----------------------------------------------------------------------------
(* Concurrent addItem requests of one user, handled by the first router; no request
   changes a product *)

AddStep(r, env) ==
    StartAddItem(r, env) \/ AddFindCart(r) \/ AddIncrement(r) \/ AddPush(r) \/ AddInsert(r)

NextAddRace == \E r \in Procs : AddStep(r, RaceEnv)
SpecAddRace == Init /\ [][NextAddRace]_vars

-----------------------------------------------------------------------------
(* The life of an order: its creation and the updates of its statuses, one request at
   a time *)

\* a body of PUT /api/orders/:id/status with a tracking number
TrackingBody(orderStatus, trackingNumber) ==
    [orderStatus |-> orderStatus, trackingNumber |-> Some(trackingNumber), deliveredAt |-> None]

\* The bodies sent: each value of the enum alone, a value that is not of the enum, a
\* deliveredAt alone and with a status, and a tracking number. A deliveredAt sent is a
\* date that no update is received at.
StatusEnv ==
    [procs |-> {"r1"}, sequential |-> TRUE, history |-> TRUE, maxRequests |-> MaxRequests,
     orderBodies |-> {OrderBody("u1", <<OrderItem("p1", 1)>>)},
     statusBodies |->
        {StatusBody(Some(s), None) : s \in OrderStatuses \cup {"Lost"}}
        \cup {StatusBody(None, Some(50)), StatusBody(Some("Cancelled"), Some(60)),
              StatusBody(Some("Delivered"), Some(60)), TrackingBody(None, "TN1")},
     paymentStatuses |-> PaymentStatuses \cup {"Chargeback"}]

NextStatus == \E r \in Procs : OrderStep(r, StatusEnv)
SpecStatus == Init /\ [][NextStatus]_vars

-----------------------------------------------------------------------------
(* Vocabulary of the properties *)

\* slot r answers its request in this step
Answering(r) == req'[r].pc = "done" /\ req'[r] # req[r]

\* slot r answers a request of operation op with the status given in this step
AnsweringWith(r, op, status) ==
    Answering(r) /\ req'[r].op = op /\ req'[r].status = status

\* the line items of the cart GET /api/carts/:userId reads for u in the collection c
CartLines(c, u) == IF Len(c[u]) = 0 THEN <<>> ELSE c[u][1].products

\* the positions of the line items for product p
LinesFor(items, p) == {i \in 1..Len(items) : items[i].productId = p}

RECURSIVE QuantityFor(_, _)
\* the quantity of product p that the line items hold together
QuantityFor(items, p) ==
    IF Len(items) = 0 THEN 0
    ELSE (IF Head(items).productId = p THEN Head(items).quantity ELSE 0)
         + QuantityFor(Tail(items), p)

\* the stock of p in the product collection c, when p has a document
Stock(c, p) == Val(c[p]).quantity

RECURSIVE LiveSubtotal(_)
\* the sum over the items of live price x ordered quantity
LiveSubtotal(items) ==
    IF Len(items) = 0 THEN 0
    ELSE Val(products[Head(items).productId]).price * Head(items).quantity
         + LiveSubtotal(Tail(items))

-----------------------------------------------------------------------------
(* Order creation *)

\* C1: the order a createOrder persists has as subtotal the sum over its items of
\* live price x ordered quantity and as total that subtotal plus the shipping cost,
\* whatever price, subtotal and total the client submitted.
C1_ServerSideTotals ==
    [][\A r \in Procs :
        (req[r].pc = "order_save" /\ Len(orders') = Len(orders) + 1) =>
            LET order == orders'[Len(orders')] IN
            /\ order.subtotalAmount = LiveSubtotal(req[r].args.products)
            /\ order.totalAmount = order.subtotalAmount + req[r].args.shippingCost]_vars

\* an order of two items was created whose total is not the total the client sent
C1_Witness ==
    \E r \in Procs :
        /\ Answered(r) /\ req[r].op = "createOrder" /\ req[r].status = 201
        /\ Len(req[r].args.products) = 2
        /\ orders[Len(orders)].totalAmount # req[r].args.totalAmount
        /\ orders[Len(orders)].products[1].priceAtTimeOfOrder # req[r].args.products[1].price

\* C2: when a createOrder succeeds, the stock of each ordered product is lower than
\* when the request arrived by exactly the quantity ordered of it.
C2_StockDecremented ==
    [][\A r \in Procs :
        AnsweringWith(r, "createOrder", 201) =>
            \A i \in 1..Len(req[r].args.products) :
                LET p == req[r].args.products[i].productId IN
                /\ IsSome(products'[p])
                /\ Stock(products', p) = Stock(Val(req[r].atArrival).products, p)
                                           - QuantityFor(req[r].args.products, p)]_vars

\* C3: a createOrder with an item that asks for more than the stock of its product
\* persists no order and does not succeed.
C3_InsufficientStockRejected ==
    [][\A r \in Procs :
        (/\ req[r].op = "createOrder" /\ InFlight(r)
         /\ \E i \in 1..Len(req[r].args.products) :
                LET item == req[r].args.products[i] IN
                /\ item.productId \in ProductIds
                /\ IsSome(Val(req[r].atArrival).products[item.productId])
                /\ item.quantity > Stock(Val(req[r].atArrival).products, item.productId))
        => /\ orders' = orders
           /\ Answering(r) => req'[r].status = 400 /\ req'[r].kind = "InsufficientStock"]_vars

\* C4: when a createOrder of user u succeeds, the cart of u has no line item or does
\* not exist.
C4_CartEmptyAfterOrder ==
    [][\A r \in Procs :
        AnsweringWith(r, "createOrder", 201) =>
            CartLines(carts', req[r].args.userId) = <<>>]_vars

-----------------------------------------------------------------------------
(* Order status *)

\* the status update of slot r that asks for Delivered and gives no deliveredAt
DeliveredWithoutDate(request) ==
    /\ request.op = "updateStatus"
    /\ request.args.body.orderStatus = Some("Delivered")
    /\ request.args.body.deliveredAt = None

\* C9: a status update to Delivered that gives no deliveredAt stamps deliveredAt with
\* the time of the update when the order stores none, and leaves a stored deliveredAt
\* as it is.
C9_DeliveredAtStampedOnce ==
    [][\A r \in Procs :
        (AnsweringWith(r, "updateStatus", 200) /\ DeliveredWithoutDate(req'[r])) =>
            LET id == req'[r].args.id IN
            IF orders[id].deliveredAt = None
            THEN orders'[id].deliveredAt = Some(clock')
            ELSE orders'[id].deliveredAt = orders[id].deliveredAt]_vars

\* a second update to Delivered has been answered and the order keeps an earlier stamp
C9_Witness ==
    \E r \in Procs :
        /\ Answered(r) /\ req[r].status = 200 /\ DeliveredWithoutDate(req[r])
        /\ orders[req[r].args.id].orderStatus = "Delivered"
        /\ IsSome(orders[req[r].args.id].deliveredAt)
        /\ Val(orders[req[r].args.id].deliveredAt) < req[r].seq

StatusFields == {"orderStatus", "paymentStatus", "trackingNumber", "deliveredAt"}
Frozen(order) == Restrict(order, DOMAIN order \ StatusFields)

\* C10: no step changes, of an order that exists, anything but orderStatus,
\* paymentStatus, trackingNumber and deliveredAt, and no step removes an order.
C10_OrderFrozen ==
    [][/\ Len(orders') >= Len(orders)
       /\ \A id \in 1..Len(orders) : Frozen(orders'[id]) = Frozen(orders[id])]_vars

\* an order whose statuses were updated and whose product was renamed after it
C10_Witness ==
    \E id \in 1..Len(orders) :
        LET line == orders[id].products[1] IN
        /\ orders[id].orderStatus = "Delivered"
        /\ IsSome(products[line.productId])
        /\ Val(products[line.productId]).name # line.nameAtTimeOfOrder

-----------------------------------------------------------------------------
(* Carts *)

\* slot r answers with 200 an addItem(u, p, q2) that follows an addItem(u, p, q1) the
\* same client had answered with 200
SecondAdd(r) ==
    /\ AnsweringWith(r, "addItem", 200)
    /\ IsSome(req[r].previous)
    /\ Val(req[r].previous).op = "addItem"
    /\ Val(req[r].previous).status = 200
    /\ Val(req[r].previous).args.userId = req[r].args.userId
    /\ Val(req[r].previous).args.productId = req[r].args.productId

\* the cart of u then holds one line item for p, of quantity q1 + q2 and of the
\* price of p now
OneLineOfBoth(r) ==
    LET u == req[r].args.userId
        p == req[r].args.productId
        lines == CartLines(carts', u)
    IN  /\ Cardinality(LinesFor(lines, p)) = 1
        /\ \A i \in LinesFor(lines, p) :
            /\ lines[i].quantity = Val(req[r].previous).args.quantity + req[r].args.quantity
            /\ lines[i].priceAtTimeOfAddition = Val(products[p]).price

C6_AddOverStockRejected ==
    [][\A r \in Procs :
        (/\ req[r].pc \in {"add_findCart", "save_findCart"}
         /\ req'[r] # req[r]
         /\ IsSome(products[req[r].args.productId])
         /\ QuantityFor(CartLines(carts, req[r].args.userId), req[r].args.productId)
                + req[r].args.quantity > Stock(products, req[r].args.productId))
        => /\ req'[r].pc = "done" /\ req'[r].status = 400
           /\ req'[r].kind = "InsufficientStock"
           /\ carts' = carts]_vars

\* C7: no cart holds two line items of the same product.
C7_NoDuplicateLines ==
    \A u \in UserIds : \A i \in 1..Len(carts[u]) : \A p \in ProductIds :
        Cardinality(LinesFor(carts[u][i].products, p)) <= 1

\* C8: every stored line item has a quantity of at least 1.
C8_QuantitiesPositive ==
    \A u \in UserIds : \A i \in 1..Len(carts[u]) :
        \A j \in 1..Len(carts[u][i].products) : carts[u][i].products[j].quantity >= 1

\* a setItems that submitted an item of quantity 0 among others was answered 200
C8_Witness ==
    \E r \in Procs :
        /\ Answered(r) /\ req[r].op = "setItems" /\ req[r].status = 200
        /\ \E i \in 1..Len(req[r].args.products) : req[r].args.products[i].quantity = 0
        /\ Len(CartLines(carts, req[r].args.userId)) = 1
        /\ Len(req[r].args.products) = 2

-----------------------------------------------------------------------------
(* Order creation: refusals and failures *)

\* the items of a createOrder that its loop has gone through before the current one
ItemsDone(request) == SubSeq(request.args.products, 1, request.idx - 1)

C13_EmptyOrUnknownRejected ==
    [][\A r \in Procs :
        (/\ Answering(r) /\ req'[r].op = "createOrder"
         /\ \/ Len(req'[r].args.products) = 0
            \/ req'[r].args.userId \notin RegisteredUsers)
        => /\ req'[r].status # 201
           /\ IsValidObjectId(req'[r].args.userId) => req'[r].status \in {400, 404}
           /\ products' = Val(req'[r].atArrival).products
           /\ carts' = Val(req'[r].atArrival).carts
           /\ orders' = Val(req'[r].atArrival).orders]_vars

\* with a cart stored, a createOrder without items was refused and then a createOrder
\* of a user that does not exist
C13_Witness ==
    \E r \in Procs :
        /\ Answered(r) /\ req[r].op = "createOrder" /\ req[r].status = 404
        /\ req[r].args.userId \notin RegisteredUsers
        /\ Len(req[r].args.products) > 0
        /\ IsSome(req[r].previous)
        /\ Val(req[r].previous).op = "createOrder" /\ Val(req[r].previous).status = 400
        /\ Len(Val(req[r].previous).args.products) = 0
        /\ Len(carts["u1"]) > 0
        /\ orders = <<>>

-----------------------------------------------------------------------------
(* Carts under concurrent requests *)

\* C14: no user has more than one Cart document, whatever the interleaving of the
\* addItem and setItems requests.
C14_OneCartPerUser == \A u \in UserIds : Len(carts[u]) <= 1

\* two first requests of a user without a cart ran together: the insert of one was
\* refused with the duplicate-key error after the other had inserted the cart
C14_Witness ==
    \E r1, r2 \in Procs :
        /\ r1 # r2 /\ Answered(r1) /\ Answered(r2)
        /\ req[r1].op \in {"addItem", "setItems"} /\ req[r2].op \in {"addItem", "setItems"}
        /\ req[r1].args.userId = req[r2].args.userId
        /\ req[r1].status = 200
        /\ req[r2].status = 500
        /\ Len(carts[req[r1].args.userId]) = 1

-----------------------------------------------------------------------------
(* Cart requests: refusals *)

\* the item is one that the validation of setItems refuses, given the products
ItemRefused(item, c) ==
    \/ item.productId \notin ProductIds
    \/ item.quantity < 0
    \/ item.priceAtTimeOfAddition < 0
    \/ c[item.productId] = None
    \/ item.quantity > 0 /\ item.quantity > Stock(c, item.productId)

\* C15: a setItems one of whose items fails the validation is refused with a client
\* error, and the carts are what they were when the request arrived: nothing of the
\* list is stored and no cart is created.
C15_SetItemsAllOrNothing ==
    [][\A r \in Procs :
        (/\ Answering(r) /\ req'[r].op = "setItems"
         /\ \E i \in 1..Len(req'[r].args.products) :
                ItemRefused(req'[r].args.products[i], Val(req'[r].atArrival).products))
        => /\ req'[r].status \in {400, 404}
           /\ carts' = Val(req'[r].atArrival).carts]_vars

\* a setItems whose first item is valid and whose second asks for more than the stock
\* was refused, and the user's cart holds the line item an addItem had stored
C15_Witness ==
    \E r \in Procs :
        /\ Answered(r) /\ req[r].op = "setItems"
        /\ req[r].status = 400 /\ req[r].kind = "InsufficientStock"
        /\ Len(req[r].args.products) = 2
        /\ ~ItemRefused(req[r].args.products[1], products)
        /\ Len(carts[req[r].args.userId]) = 1
        /\ Len(CartLines(carts, req[r].args.userId)) = 1
        /\ CartLines(carts, req[r].args.userId)[1].priceAtTimeOfAddition = 10

\* slot r answers a request of operation op for a user that had no Cart document when
\* the request arrived
AnsweringWithoutCart(r, op) ==
    /\ Answering(r) /\ req'[r].op = op
    /\ IsValidObjectId(req'[r].args.userId)
    /\ Val(req'[r].atArrival).carts[req'[r].args.userId] = <<>>

\* C16: a getCart of a user without a cart is answered 200 with an empty list of
\* products and creates no cart; a clearCart that follows it is answered 404.
C16_GetCartSynthetic ==
    [][\A r \in Procs :
        /\ AnsweringWithoutCart(r, "getCart") =>
                /\ req'[r].status = 200
                /\ req'[r].result.products = <<>>
                /\ carts' = carts
        /\ (/\ AnsweringWithoutCart(r, "clearCart")
            /\ IsSome(req'[r].previous)
            /\ Val(req'[r].previous).op = "getCart"
            /\ Val(req'[r].previous).args.userId = req'[r].args.userId)
           => req'[r].status = 404]_vars

\* a getCart of a user without a cart was answered with the empty cart, and the
\* clearCart that followed it with 404
C16_Witness ==
    \E r \in Procs :
        /\ Answered(r) /\ req[r].op = "clearCart" /\ req[r].status = 404
        /\ IsSome(req[r].previous)
        /\ Val(req[r].previous).op = "getCart" /\ Val(req[r].previous).status = 200
        /\ Val(req[r].previous).args.userId = req[r].args.userId
        /\ Val(req[r].previous).result.products = <<>>
        /\ carts[req[r].args.userId] = <<>>

\* slot r answers a clearCart of a user with a valid id
AnsweringClearCart(r) ==
    /\ Answering(r) /\ req'[r].op = "clearCart"
    /\ IsValidObjectId(req'[r].args.userId)

\* C17: a clearCart of a user that has a cart is answered 200 and leaves the user
\* without a Cart document; a clearCart of a user that has none is answered 404 and
\* changes nothing; so the second of two clearCart in a row is answered 404.
C17_ClearCartRemoves ==
    [][\A r \in Procs :
        AnsweringClearCart(r) =>
            LET u == req'[r].args.userId IN
            /\ carts[u] # <<>> =>
                    /\ req'[r].status = 200
                    /\ carts'[u] = <<>>
                    /\ \A v \in UserIds \ {u} : carts'[v] = carts[v]
            /\ carts[u] = <<>> =>
                    /\ req'[r].status = 404
                    /\ carts' = carts
            /\ (/\ IsSome(req'[r].previous)
                /\ Val(req'[r].previous).op = "clearCart"
                /\ Val(req'[r].previous).status = 200
                /\ Val(req'[r].previous).args.userId = u)
               => req'[r].status = 404]_vars

\* a clearCart answered 200 was followed by a clearCart of the same user answered 404
C17_Witness ==
    \E r \in Procs :
        /\ Answered(r) /\ req[r].op = "clearCart" /\ req[r].status = 404
        /\ IsSome(req[r].previous)
        /\ Val(req[r].previous).op = "clearCart" /\ Val(req[r].previous).status = 200
        /\ Val(req[r].previous).args.userId = req[r].args.userId
        /\ Val(Val(req[r].previous).atArrival).carts[req[r].args.userId] # <<>>

-----------------------------------------------------------------------------
(* Malformed ids *)

\* the request carries a user id, a product id or an order id that is no object id
HasMalformedId(request) ==
    LET a == request.args IN
    IF request.op \in {"updateStatus", "updatePayment"} THEN a.id = MalformedOrderId
    ELSE IF request.op = "createOrder"
    THEN \/ ~IsValidObjectId(a.userId)
         \/ \E i \in 1..Len(a.products) : ~IsValidObjectId(a.products[i].productId)
    ELSE IF request.op = "setItems"
    THEN \/ ~IsValidObjectId(a.userId)
         \/ \E i \in 1..Len(a.products) : ~IsValidObjectId(a.products[i].productId)
    ELSE IF request.op = "addItem"
    THEN ~IsValidObjectId(a.userId) \/ ~IsValidObjectId(a.productId)
    ELSE ~IsValidObjectId(a.userId)

\* C18: a cart or order request with a malformed user id, product id or order id is
\* answered 400, and the products, the carts and the orders are what they were when
\* the request arrived.
C18_MalformedIdIsClientError ==
    [][\A r \in Procs :
        (Answering(r) /\ HasMalformedId(req'[r]))
        => /\ req'[r].status = 400
           /\ products' = Val(req'[r].atArrival).products
           /\ carts' = Val(req'[r].atArrival).carts
           /\ orders' = Val(req'[r].atArrival).orders]_vars

-----------------------------------------------------------------------------
(* Concurrent requests *)

\* the quantity of p in the cart of u when the request arrived
QuantityAtArrival(request, u, p) == QuantityFor(CartLines(Val(request.atArrival).carts, u), p)

\* Both slots hold an addItem of the same product to the same cart, answered 200, and
\* the two requests found the same line item of the product when they arrived: the
\* later one arrived before the earlier one had written, so they ran concurrently.
ConcurrentAdds(r1, r2) ==
    /\ r1 # r2 /\ Answered(r1) /\ Answered(r2)
    /\ req[r1].op = "addItem" /\ req[r2].op = "addItem"
    /\ req[r1].status = 200 /\ req[r2].status = 200
    /\ req[r1].args.userId = req[r2].args.userId
    /\ req[r1].args.productId = req[r2].args.productId
    /\ QuantityAtArrival(req[r1], req[r1].args.userId, req[r1].args.productId) >= 1
    /\ QuantityAtArrival(req[r1], req[r1].args.userId, req[r1].args.productId)
            = QuantityAtArrival(req[r2], req[r1].args.userId, req[r1].args.productId)

\* C19: when two concurrent addItem of a product that is in the cart have both been
\* answered 200, the cart holds of the product what it held before plus the two
\* quantities asked for.
C19_NoLostIncrement ==
    \A r1, r2 \in Procs :
        ConcurrentAdds(r1, r2) =>
            QuantityFor(CartLines(carts, req[r1].args.userId), req[r1].args.productId)
                = QuantityAtArrival(req[r1], req[r1].args.userId, req[r1].args.productId)
                  + req[r1].args.quantity + req[r2].args.quantity

\* the item that the loop of the createOrder of slot r is at
CurrentItem(r) == req[r].args.products[req[r].idx]

\* C20: nothing keeps two concurrent createOrder from overselling. A createOrder whose
\* item asks for no more than the stock of its product at the time of the check passes
\* the check, whatever other requests have checked and not yet decremented; and once
\* it has passed the check it is never refused for insufficient stock.
C20_OversellNotPrevented ==
    [][\A r \in Procs :
        /\ (/\ req[r].pc = "order_item" /\ req'[r] # req[r]
            /\ CurrentItem(r).productId \in ProductIds
            /\ IsSome(products[CurrentItem(r).productId])
            /\ CurrentItem(r).quantity <= Stock(products, CurrentItem(r).productId))
           => req'[r].pc = "order_saveProduct"
        /\ (req[r].pc \in {"order_saveProduct", "order_save", "order_clearCart"} /\ Answering(r))
           => req'[r].kind # "InsufficientStock"]_vars

\* the order of slot r is of one item, of product p, for no more than the stock s
OneItemWithin(r, p, s) ==
    /\ Answered(r) /\ req[r].op = "createOrder" /\ req[r].status = 201
    /\ Len(req[r].args.products) = 1
    /\ req[r].args.products[1].productId = p
    /\ req[r].args.products[1].quantity <= s
    /\ Stock(Val(req[r].atArrival).products, p) = s

\* two createOrder of the same product that ran together (neither found the order of
\* the other when it arrived) were both answered 201 and both orders are stored; each
\* asked for no more than the stock, and the two for more than the stock
C20_Witness ==
    \E r1, r2 \in Procs : \E p \in ProductIds : \E s \in 1..3 :
        /\ r1 # r2
        /\ OneItemWithin(r1, p, s) /\ OneItemWithin(r2, p, s)
        /\ req[r1].args.products[1].quantity + req[r2].args.products[1].quantity > s
        /\ Val(req[r1].atArrival).orders = <<>>
        /\ Val(req[r2].atArrival).orders = <<>>
        /\ Len(orders) = 2

-----------------------------------------------------------------------------
(* Cart requests: what setItems stores *)

\* the submitted item is one that is to be stored
Submitted(item) == item.quantity > 0

\* C21: when a setItems of user u is answered 200, u has a cart and its line items are
\* the submitted items of quantity above 0, in the order submitted, each with the
\* quantity and the price submitted; nothing of what the cart held before is left, and
\* the cart is created when u had none.
C21_SetItemsReplaces ==
    [][\A r \in Procs :
        AnsweringWith(r, "setItems", 200) =>
            LET u == req'[r].args.userId IN
            /\ Len(carts'[u]) = 1
            /\ carts'[u][1].products = SelectSeq(req'[r].args.products, Submitted)
            /\ \A v \in UserIds \ {u} : carts'[v] = carts[v]]_vars

\* a setItems created the cart of a user with two line items, and the setItems that
\* followed, of an item of quantity 0 and one of quantity 1, left one line item, at the
\* price submitted, which is not the price of the product
C21_Witness ==
    \E r \in Procs :
        /\ Answered(r) /\ req[r].op = "setItems" /\ req[r].status = 200
        /\ Len(req[r].args.products) = 2
        /\ req[r].args.products[1].quantity = 0
        /\ IsSome(req[r].previous)
        /\ Val(req[r].previous).op = "setItems" /\ Val(req[r].previous).status = 200
        /\ Val(req[r].previous).args.userId = req[r].args.userId
        /\ Val(Val(req[r].previous).atArrival).carts[req[r].args.userId] = <<>>
        /\ Len(CartLines(Val(req[r].atArrival).carts, req[r].args.userId)) = 2
        /\ Len(CartLines(carts, req[r].args.userId)) = 1
        /\ CartLines(carts, req[r].args.userId)[1].priceAtTimeOfAddition
                # Val(products[CartLines(carts, req[r].args.userId)[1].productId]).price

-----------------------------------------------------------------------------
(* Order creation: the snapshot *)

\* C22: every line item of an order that is created records the name, the image, the
\* size, the color and the price of its product as the product is at the creation,
\* whatever the client submitted.
C22_SnapshotFromProduct ==
    [][\A r \in Procs :
        (req[r].pc = "order_save" /\ Len(orders') = Len(orders) + 1) =>
            LET order == orders'[Len(orders')] IN
            \A i \in 1..Len(order.products) :
                LET line == order.products[i]
                    product == Val(products[line.productId])
                IN  /\ line.nameAtTimeOfOrder = product.name
                    /\ line.imageUrlAtTimeOfOrder = product.imageUrl
                    /\ line.priceAtTimeOfOrder = product.price
                    /\ line.sizeAtTimeOfOrder = product.size
                    /\ line.colorAtTimeOfOrder = product.color]_vars

-----------------------------------------------------------------------------
(* Order status: transitions *)

\* slot r answers a status update of an order that exists
AnsweringStatusUpdate(r) ==
    /\ Answering(r) /\ req'[r].op = "updateStatus"
    /\ req'[r].args.id \in 1..Len(orders)

\* C23: a status update of an order that exists, to one of the six values of the enum,
\* is answered 200 and stores the value, whatever the orderStatus of the order is: no
\* transition is refused, back to Pending from Delivered, Cancelled or Returned included.
C23_AnyTransitionAccepted ==
    [][\A r \in Procs :
        (/\ AnsweringStatusUpdate(r)
         /\ IsSome(req'[r].args.body.orderStatus)
         /\ Val(req'[r].args.body.orderStatus) \in OrderStatuses)
        => /\ req'[r].status = 200
           /\ orders'[req'[r].args.id].orderStatus = Val(req'[r].args.body.orderStatus)]_vars

\* an order that an update had set to Returned was set to Pending by the next update
C23_Witness ==
    \E r \in Procs :
        /\ Answered(r) /\ req[r].op = "updateStatus" /\ req[r].status = 200
        /\ req[r].args.body.orderStatus = Some("Pending")
        /\ IsSome(req[r].previous)
        /\ Val(req[r].previous).op = "updateStatus" /\ Val(req[r].previous).status = 200
        /\ Val(req[r].previous).args.id = req[r].args.id
        /\ Val(req[r].previous).args.body.orderStatus = Some("Returned")
        /\ Val(req[r].atArrival).orders[req[r].args.id].orderStatus = "Returned"
        /\ orders[req[r].args.id].orderStatus = "Pending"

\* slot r answers a payment-status update of an order that exists
AnsweringPaymentUpdate(r) ==
    /\ Answering(r) /\ req'[r].op = "updatePayment"
    /\ req'[r].args.id \in 1..Len(orders)

\* C24: a payment-status update of an order that exists, to one of Pending, Paid,
\* Failed and Refunded, is answered 200 and stores the value whatever the orderStatus of
\* the order is, and leaves orderStatus, trackingNumber and deliveredAt as they are; a
\* status update leaves paymentStatus as it is.
C24_PaymentStatusIndependent ==
    [][\A r \in Procs :
        /\ (AnsweringPaymentUpdate(r) /\ req'[r].args.paymentStatus \in PaymentStatuses) =>
                LET id == req'[r].args.id IN
                /\ req'[r].status = 200
                /\ orders'[id].paymentStatus = req'[r].args.paymentStatus
                /\ orders'[id].orderStatus = orders[id].orderStatus
                /\ orders'[id].trackingNumber = orders[id].trackingNumber
                /\ orders'[id].deliveredAt = orders[id].deliveredAt
        /\ AnsweringStatusUpdate(r) =>
                orders'[req'[r].args.id].paymentStatus = orders[req'[r].args.id].paymentStatus]_vars

\* an order that was cancelled, with a deliveredAt, has been marked Paid and is still
\* Cancelled, with the same deliveredAt
C24_Witness ==
    \E r \in Procs :
        /\ Answered(r) /\ req[r].op = "updatePayment" /\ req[r].status = 200
        /\ req[r].args.paymentStatus = "Paid"
        /\ req[r].args.id \in 1..Len(orders)
        /\ Val(req[r].atArrival).orders[req[r].args.id].paymentStatus = "Pending"
        /\ Val(req[r].atArrival).orders[req[r].args.id].orderStatus = "Cancelled"
        /\ orders[req[r].args.id].paymentStatus = "Paid"
        /\ orders[req[r].args.id].orderStatus = "Cancelled"
        /\ orders[req[r].args.id].deliveredAt = Some(60)

-----------------------------------------------------------------------------
(* Order status: deliveredAt *)

\* C25: in every state, an order whose orderStatus is Delivered has a deliveredAt.
C25_DeliveredHasDate ==
    \A id \in 1..Len(orders) :
        orders[id].orderStatus = "Delivered" => IsSome(orders[id].deliveredAt)

\* an order that had no deliveredAt was set to Delivered by an update that gave none,
\* and holds the time of that update
C25_Witness ==
    \E r \in Procs :
        /\ Answered(r) /\ req[r].status = 200 /\ DeliveredWithoutDate(req[r])
        /\ Val(req[r].atArrival).orders[req[r].args.id].deliveredAt = None
        /\ Val(req[r].atArrival).orders[req[r].args.id].orderStatus # "Delivered"
        /\ orders[req[r].args.id].orderStatus = "Delivered"
        /\ orders[req[r].args.id].deliveredAt = Some(req[r].seq)

\* C28: a status update of an order that exists whose body gives a deliveredAt stores
\* that deliveredAt, whatever the orderStatus of the order and the orderStatus asked
\* for, if any: also for an order that is not Delivered and never was, and over a
\* deliveredAt stored before.
C28_ExplicitDateStored ==
    [][\A r \in Procs :
        (/\ AnsweringStatusUpdate(r)
         /\ IsSome(req'[r].args.body.deliveredAt)
         /\ OrDefault(req'[r].args.body.orderStatus, "Pending") \in OrderStatuses)
        => /\ req'[r].status = 200
           /\ orders'[req'[r].args.id].deliveredAt = req'[r].args.body.deliveredAt]_vars

\* an order that was never Delivered got a deliveredAt from an update without a status,
\* and the update that cancelled it has put a later deliveredAt in its place
C28_Witness ==
    \E r \in Procs :
        /\ Answered(r) /\ req[r].op = "updateStatus" /\ req[r].status = 200
        /\ req[r].args.body.orderStatus = Some("Cancelled")
        /\ req[r].args.body.deliveredAt = Some(60)
        /\ IsSome(req[r].previous)
        /\ Val(req[r].previous).op = "updateStatus" /\ Val(req[r].previous).status = 200
        /\ Val(req[r].previous).args.id = req[r].args.id
        /\ Val(req[r].previous).args.body.orderStatus = None
        /\ Val(Val(req[r].previous).atArrival).orders[req[r].args.id].deliveredAt = None
        /\ Val(req[r].atArrival).orders[req[r].args.id].orderStatus = "Pending"
        /\ Val(req[r].atArrival).orders[req[r].args.id].deliveredAt = Some(50)
        /\ orders[req[r].args.id].orderStatus = "Cancelled"
        /\ orders[req[r].args.id].deliveredAt = Some(60)

-----------------------------------------------------------------------------
(* Concurrent addItem requests and the stock *)

\* C26: whatever the interleaving of concurrent addItem requests of a user for a
\* product whose stock does not change, no stored line item of the product has a
\* quantity above the stock of the product.
C26_QuantityWithinStock ==
    \A u \in UserIds : \A i \in 1..Len(carts[u]) :
        \A j \in 1..Len(carts[u][i].products) :
            LET line == carts[u][i].products[j] IN
            IsSome(products[line.productId]) =>
                line.quantity <= Stock(products, line.productId)

-----------------------------------------------------------------------------
(* Cart requests and the products *)

CartOperations == {"getCart", "addItem", "setItems", "clearCart"}

\* C27: no step of a getCart, an addItem, a setItems or a clearCart, answered with
\* success or with an error, changes a product: its stock and its price are after the
\* step what they were before, so a product in a cart reserves no stock.
C27_CartLeavesProducts ==
    [][\A r \in Procs :
        (req'[r] # req[r] /\ req'[r].op \in CartOperations) => products' = products]_vars

\* two addItem in a row have put the whole stock of a product in the cart of a user, the
\* second on the line item of the first, and the product is what it was before the two
C27_Witness ==
    \E r \in Procs :
        /\ Answered(r) /\ req[r].op = "addItem" /\ req[r].status = 200
        /\ IsSome(req[r].previous)
        /\ Val(req[r].previous).op = "addItem" /\ Val(req[r].previous).status = 200
        /\ Val(req[r].previous).args.userId = req[r].args.userId
        /\ Val(req[r].previous).args.productId = req[r].args.productId
        /\ IsSome(products[req[r].args.productId])
        /\ QuantityFor(CartLines(carts, req[r].args.userId), req[r].args.productId)
                = Stock(products, req[r].args.productId)
        /\ products = Val(Val(req[r].previous).atArrival).products

=============================================================================
